---- MODULE Spec2Model ----
(***************************************************************************)
(* State-machine model of muffin.mixture.HMM (src/muffin/mixture.py): the  *)
(* heterogeneous mixture engine, its par_model components, the het_mixture *)
(* draws it returns and the figaro DPGMM collaborator it drives.           *)
(*                                                                         *)
(* Numbers.  Floats are exact extended rationals [n, d] in lowest terms    *)
(* (d = 0: NaN or +inf).  Log-space floats are the tagged values Fin(q)    *)
(* (the logarithm of the rational q > 0), NegInf and LNaN, with + - and    *)
(* logsumexp computed on them as numpy/scipy compute them.                 *)
(* Arrays are functions over 0..len-1, indexed as in the source.           *)
(***************************************************************************)
EXTENDS Integers, Sequences, FiniteSets, TLC

\* ------------------------------------------------------------- bounds
MaxPts == 3          \* add_new_point calls explored between two resets
MaxSamples == 2      \* longest array given to density_from_samples
MaxGammaLen == 3     \* longest gamma0 a caller supplies

\* ------------------------------------------------- configuration inputs
NModels == {0, 1, 2}             \* len(models) of the engines explored
NInferred == {1}                 \* len(models) of those given par_bounds
n_draws_arg == 2                 \* the n_draws argument
alpha0 == 1                      \* the default alpha0 argument
bounds == <<0, 2>>               \* the rectangle [[0, 2]]
par_bounds_arg == <<0, 2>>       \* [[0, 2]] for the single parameter of a model
X == bounds[1]..bounds[2]        \* the samples fed to the engine
Theta == {par_bounds_arg[1], par_bounds_arg[2]}  \* values np.random.uniform returns
None == <<>>                     \* Python's None for sequence-valued arguments

\* ------------------------------------------------------------ rationals
RECURSIVE GCD(_, _)
GCD(a, b) == IF b = 0 THEN a ELSE GCD(b, a % b)

Rat(n, d) ==
    IF d = 0 THEN [n |-> IF n = 0 THEN 0 ELSE 1, d |-> 0]
    ELSE LET g == GCD(n, d) IN [n |-> n \div g, d |-> d \div g]
R0 == [n |-> 0, d |-> 1]
R1 == [n |-> 1, d |-> 1]
NaNF == [n |-> 0, d |-> 0]
InfF == [n |-> 1, d |-> 0]
IsNaN(a) == a = NaNF
RAdd(a, b) ==
    IF IsNaN(a) \/ IsNaN(b) THEN NaNF
    ELSE IF a.d = 0 \/ b.d = 0 THEN InfF
    ELSE Rat(a.n * b.d + b.n * a.d, a.d * b.d)
RMul(a, b) ==
    IF IsNaN(a) \/ IsNaN(b) THEN NaNF
    ELSE IF a.d = 0 \/ b.d = 0 THEN (IF a.n = 0 \/ b.n = 0 THEN NaNF ELSE InfF)
    ELSE Rat(a.n * b.n, a.d * b.d)
RDiv(a, b) ==
    IF IsNaN(a) \/ IsNaN(b) THEN NaNF
    ELSE IF b.d = 0 THEN (IF a.d = 0 THEN NaNF ELSE R0)
    ELSE IF a.d = 0 THEN InfF
    ELSE IF b.n = 0 THEN (IF a.n = 0 THEN NaNF ELSE InfF)
    ELSE Rat(a.n * b.d, a.d * b.n)

\* arrays: functions over 0..len-1
len(a) == Cardinality(DOMAIN a)
RECURSIVE SumUpTo(_, _)
SumUpTo(a, k) == IF k < 0 THEN R0 ELSE RAdd(a[k], SumUpTo(a, k - 1))
np_sum(a) == SumUpTo(a, len(a) - 1)
np_zeros(n) == [i \in 0..(n - 1) |-> 0]
\* a one-element array
Vec1(v) == [i \in 0..0 |-> v]

\* ---------------------------------------------------- log-space floats
Fin(q) == [k |-> "fin", q |-> q]
NegInf == [k |-> "-inf", q |-> R0]
PosInf == [k |-> "+inf", q |-> InfF]
LNaN == [k |-> "nan", q |-> NaNF]
LogZero == Fin(R1)                         \* the float 0.0 = log(1)
\* np.log of a float >= 0: log(0.) is -inf
np_log(q) ==
    IF IsNaN(q) THEN LNaN
    ELSE IF q.d = 0 THEN PosInf
    ELSE IF q.n = 0 THEN NegInf
    ELSE Fin(q)
\* np.exp
np_exp(a) == a.q
\* a + b on log-space floats
LAdd(a, b) ==
    IF a.k = "nan" \/ b.k = "nan" THEN LNaN
    ELSE IF a.k = "-inf" THEN (IF b.k = "+inf" THEN LNaN ELSE NegInf)
    ELSE IF b.k = "-inf" THEN (IF a.k = "+inf" THEN LNaN ELSE NegInf)
    ELSE IF a.k = "+inf" \/ b.k = "+inf" THEN PosInf
    ELSE Fin(RMul(a.q, b.q))
\* a - b on log-space floats: (-inf) - (-inf) is NaN
LSub(a, b) ==
    IF a.k = "nan" \/ b.k = "nan" THEN LNaN
    ELSE IF a.k = b.k /\ a.k # "fin" THEN LNaN
    ELSE IF a.k = "+inf" \/ b.k = "-inf" THEN PosInf
    ELSE IF a.k = "-inf" \/ b.k = "+inf" THEN NegInf
    ELSE Fin(RDiv(a.q, b.q))
\* scipy.special.logsumexp of an array of log-space floats
logsumexp(a) ==
    IF len(a) = 0 THEN NegInf
    ELSE np_log(np_sum([i \in DOMAIN a |-> np_exp(a[i])]))

\* --------------------------------------------------- component objects
\* the density the caller passes as `model`: f(x; theta) = max(0, 2 - |x - theta|)
\* for a model with one parameter, the flat density 1 for a model with none;
\* evaluated by par_model.pdf / par_model.pdf_pars as self.model(x, *pars)
model(x, pars) ==
    IF len(pars) = 0 THEN R1
    ELSE LET th == pars[0]
             xd == x * th.d
             dist == IF xd >= th.n THEN xd - th.n ELSE th.n - xd
         IN  IF IsNaN(th) THEN NaNF
             ELSE IF 2 * th.d > dist THEN Rat(2 * th.d - dist, th.d) ELSE R0

\* par_model.__init__: the object's pars attribute (model and bounds are fixed)
par_model(pars) == [pars |-> pars]
\* par_model.pdf: the density at x with the stored parameters
par_model_pdf(m, x) == model(x, m.pars)
\* par_model.pdf_pars
par_model_pdf_pars(x, pars) == model(x, pars)
\* uniform(x, v)
uniform(x, v) == v

\* ------------------------------------------ the figaro DPGMM collaborator
\* DPGMM(bounds, prior_pars, alpha0): no point yet
DPGMM_new == [n_pts |-> 0, alpha |-> alpha0]
\* DPGMM.initialise()
DPGMM_initialise(D) == [D EXCEPT !.n_pts = 0]
\* DPGMM.add_new_point(x)
DPGMM_add_new_point(D, x) == [D EXCEPT !.n_pts = @ + 1]
\* DPGMM.build_mixture(): a frozen copy of the clusters
DPGMM_build_mixture(D) == [kind |-> "figaro", n_pts |-> D.n_pts, pars |-> <<>>]
\* DPGMM._log_predictive_likelihood(x, ss): log-likelihood of x in an
\* occupied cluster (ss a component) or in an empty one (ss = "new")
DPGMM_log_predictive_likelihood(x, new) == IF new THEN Fin(R1) ELSE Fin(Rat(2, 1))
\* probit_logJ(x, bounds)
probit_logJ(x) == LogZero

\* ------------------------------------------------------------- HMM
\* volume = prod(diff(bounds))
volume == bounds[2] - bounds[1]

\* no object: what the caller holds when HMM() raised
NoSelf ==
    [attrs |-> {}, n_draws |-> [float |-> FALSE, v |-> 0], par_bounds |-> None,
     par_draws |-> <<>>, log_total_p |-> <<>>, par_models |-> <<>>,
     DPGMM |-> DPGMM_new, n_components |-> 0, n_pts |-> <<>>, gamma0 |-> <<>>,
     weights |-> <<>>]

\* np.ones(n), as floats
np_ones(n) == [i \in 0..(n - 1) |-> R1]
\* self.gamma0 / np.sum(self.gamma0)
NormalisedPrior(gamma0) == [i \in DOMAIN gamma0 |-> RDiv(gamma0[i], np_sum(gamma0))]
\* (self.n_pts + self.gamma0) / np.sum(self.n_pts + self.gamma0), numpy
\* broadcasting a one-element n_pts over a longer gamma0
CountsPlusPrior(n_pts, gamma0) ==
    [i \in DOMAIN gamma0 |->
        RAdd(Rat(IF len(n_pts) = len(gamma0) THEN n_pts[i] ELSE n_pts[0], 1), gamma0[i])]
\* the weights computed from the counts alone
PosteriorWeights_counts_only(n_pts, gamma0) ==
    NormalisedPrior([i \in DOMAIN n_pts |-> Rat(n_pts[i], 1)])
\* line 140
PosteriorWeights(n_pts, gamma0) == NormalisedPrior(CountsPlusPrior(n_pts, gamma0))

\* lines 99 and 127: n_draws candidates per model, uniform in par_bounds
ParDraws(K) ==
    [0..(K - 1) -> {c \in [0..(n_draws_arg - 1) -> Theta] :
                      \A j \in 1..(n_draws_arg - 1) : c[j - 1] <= c[j]}]
\* lines 100 and 128: one zero vector per model
ZeroEvidence(K, n) == [k \in 0..(K - 1) |-> [j \in 0..(n - 1) |-> LogZero]]

\* len(np.array([gamma0])): the caller's sequence is wrapped in a list, so
\* the array has shape (1, L) and its len is 1
len_wrapped_gamma0(gamma0) == 1
\* the message of line 117 names the field {n} and formats it positionally:
\* str.format raises KeyError before the Exception is built
gamma0_error == "KeyError"

\* the slot count without the DPGMM slot
n_components_parametric_only(K) == K
\* line 105: self.n_components = len(models) + 1
n_components_of(K) == K + 1

\* HMM.__init__(models, bounds, pars, par_bounds, n_draws, gamma0); K = len(models),
\* pd the candidates np.random.uniform returns. [exc, self]
HMM_init(K, pars, par_bounds, gamma0, pd) ==
    LET attrs0 == IF pars = None THEN {"n_draws"} ELSE {}
        ndr0   == [float |-> TRUE, v |-> 0]
        marg   == par_bounds # None
        attrs1 == IF marg THEN attrs0 \cup {"n_draws", "par_draws", "log_total_p"} ELSE attrs0
        ndr1   == IF marg THEN [float |-> FALSE, v |-> n_draws_arg] ELSE ndr0
        pars1  == IF pars = None THEN [i \in 0..(K - 1) |-> <<>>] ELSE pars
        n      == n_components_of(K)
        base   == [attrs |-> attrs1, n_draws |-> ndr1, par_bounds |-> par_bounds,
                   par_draws |-> IF marg THEN pd ELSE <<>>,
                   log_total_p |-> IF marg THEN ZeroEvidence(K, n_draws_arg) ELSE <<>>,
                   par_models |-> [i \in 0..(K - 1) |-> par_model(pars1[i])],
                   DPGMM |-> DPGMM_new, n_components |-> n, n_pts |-> np_zeros(n),
                   gamma0 |-> <<>>, weights |-> <<>>]
    IN  IF gamma0 = None
        THEN [exc |-> "None",
              self |-> [base EXCEPT !.gamma0 = np_ones(n),
                                    !.weights = NormalisedPrior(np_ones(n))]]
        ELSE IF len_wrapped_gamma0(gamma0) = n
        THEN LET g == [i \in 0..(Len(gamma0) - 1) |-> Rat(gamma0[i + 1], 1)]
             IN  [exc |-> "None",
                  self |-> [base EXCEPT !.gamma0 = g, !.weights = NormalisedPrior(g)]]
        ELSE [exc |-> gamma0_error, self |-> NoSelf]

\* initialise() without line 128: the evidence of the last run is kept
HMM_initialise_keeps_evidence(self, pd) ==
    LET s1 == [self EXCEPT !.n_pts = np_zeros(self.n_components),
                           !.weights = NormalisedPrior(self.gamma0)]
    IN  IF self.par_bounds # None THEN [s1 EXCEPT !.par_draws = pd] ELSE s1

\* HMM.initialise(); pd the fresh candidates
HMM_initialise(self, pd) ==
    LET s1 == [self EXCEPT !.n_pts = np_zeros(self.n_components),
                           !.weights = NormalisedPrior(self.gamma0)]
    IN  IF self.par_bounds # None
        THEN [s1 EXCEPT !.par_draws = pd,
                        !.log_total_p = ZeroEvidence(len(self.par_models), self.n_draws.v)]
        ELSE s1

\* HMM._log_predictive_mixture(x), lines 167-179: the logsumexp over the
\* clusters and "new" of likelihood + log(N) - log(n_pts + alpha); the
\* occupations N of the clusters add up to DPGMM.n_pts, and the clusters
\* are scored as one
HMM_log_predictive_mixture(self, x) ==
    LET D == self.DPGMM
        norm == np_log(Rat(D.n_pts + D.alpha, 1))
        new == LSub(LAdd(DPGMM_log_predictive_likelihood(x, TRUE),
                         np_log(Rat(D.alpha, 1))), norm)
        old == LSub(LAdd(DPGMM_log_predictive_likelihood(x, FALSE),
                         np_log(Rat(D.n_pts, 1))), norm)
        scores == IF D.n_pts = 0 THEN Vec1(new) ELSE [i \in 0..1 |-> IF i = 0 THEN old ELSE new]
    IN  LSub(logsumexp(scores), probit_logJ(x))

\* lines 159-160: log_p is -inf where p = 0 and np.log(p) where p > 0
GuardedLog(p) == IF ~IsNaN(p) /\ p.n > 0 THEN np_log(p) ELSE NegInf

\* np.zeros(self.n_draws), lines 150, 155 and 156: the exception it raises
\* ("None": none) when the attribute is missing or a float
np_zeros_n_draws_exc(self) ==
    IF "n_draws" \notin self.attrs THEN "AttributeError"
    ELSE IF self.n_draws.float THEN "TypeError"
    ELSE "None"
\* HMM._log_predictive_likelihood(x, i): [exc, score, vals], score and vals
\* what the return statement computed (returned when exc is "None")
HMM_log_predictive_likelihood(self, x, i) ==
    LET zeros == [j \in 0..(self.n_draws.v - 1) |-> LogZero]
        e == np_zeros_n_draws_exc(self)
    IN  IF i = 0
        THEN [exc |-> e, score |-> HMM_log_predictive_mixture(self, x), vals |-> zeros]
        ELSE IF self.par_bounds = None
        THEN LET p == par_model_pdf(self.par_models[i - 1], x)
             IN  IF p = R0 THEN [exc |-> e, score |-> NegInf, vals |-> zeros]
                 ELSE [exc |-> e, score |-> np_log(p), vals |-> zeros]
        ELSE LET draws_i == self.par_draws[i - 1]
                 p == [j \in DOMAIN draws_i |->
                         par_model_pdf_pars(x, Vec1(Rat(draws_i[j], 1)))]
                 log_p == [j \in DOMAIN p |-> GuardedLog(p[j])]
                 ltp == self.log_total_p[i - 1]
                 v == LSub(logsumexp([j \in DOMAIN p |-> LAdd(log_p[j], ltp[j])]),
                           logsumexp(ltp))
             IN  [exc |-> "None", score |-> v, vals |-> log_p]

\* the mixing term without the prior pseudo-count
MixingTerm_counts_only(self, i) == np_log(Rat(self.n_pts[i], 1))
\* line 136: np.log(self.gamma0[i] + self.n_pts[i])
MixingTerm(self, i) == np_log(RAdd(self.gamma0[i], Rat(self.n_pts[i], 1)))

\* lines 131-137: the probability vector handed to np.random.choice
AssignmentProbabilities(self, x) ==
    LET scores == [i \in 0..(self.n_components - 1) |->
                     LAdd(HMM_log_predictive_likelihood(self, x, i).score,
                          MixingTerm(self, i))]
        lse == logsumexp(scores)
    IN  [i \in DOMAIN scores |-> np_exp(LSub(scores[i], lse))]

\* np.random.choice(n, p = p) accepts p: no NaN, no negative entry, sum 1
ValidCategorical(p) ==
    /\ \A i \in DOMAIN p : ~IsNaN(p[i]) /\ p[i].d # 0 /\ p[i].n >= 0
    /\ np_sum(p) = R1

\* lines 139-146 with the scores of the drawn slot added to the evidence of
\* every model
AssignTo_adds_to_all(self, x, id) ==
    LET n_pts == [self.n_pts EXCEPT ![id] = @ + 1]
        s1 == [self EXCEPT !.n_pts = n_pts,
                           !.weights = NormalisedPrior(CountsPlusPrior(n_pts, self.gamma0))]
        vals == HMM_log_predictive_likelihood(self, x, id).vals
    IN  IF id = 0
        THEN [exc |-> "None", self |-> [s1 EXCEPT !.DPGMM = DPGMM_add_new_point(@, x)]]
        ELSE [exc |-> "None",
              self |-> [s1 EXCEPT !.log_total_p =
                           [k \in DOMAIN @ |-> [j \in DOMAIN @[k] |-> LAdd(@[k][j], vals[j])]]]]
\* lines 139-146 with the sample forwarded to the collaborator whatever the slot
AssignTo_forwards_always(self, x, id) ==
    LET n_pts == [self.n_pts EXCEPT ![id] = @ + 1]
        s1 == [self EXCEPT !.n_pts = n_pts,
                           !.weights = NormalisedPrior(CountsPlusPrior(n_pts, self.gamma0)),
                           !.DPGMM = DPGMM_add_new_point(@, x)]
        vals == HMM_log_predictive_likelihood(self, x, id).vals
    IN  IF id = 0 THEN [exc |-> "None", self |-> s1]
        ELSE [exc |-> "None",
              self |-> [s1 EXCEPT !.log_total_p[id - 1] =
                           [j \in DOMAIN @ |-> LAdd(@[j], vals[j])]]]
\* lines 139-146, slot id drawn
AssignTo(self, x, id) ==
    LET n_pts == [self.n_pts EXCEPT ![id] = @ + 1]
        s1 == [self EXCEPT !.n_pts = n_pts,
                           !.weights = PosteriorWeights(n_pts, self.gamma0)]
        vals == HMM_log_predictive_likelihood(self, x, id).vals
    IN  IF id = 0
        THEN [exc |-> "None", self |-> [s1 EXCEPT !.DPGMM = DPGMM_add_new_point(@, x)]]
        ELSE IF "log_total_p" \notin self.attrs
        THEN [exc |-> "AttributeError", self |-> s1]
        ELSE [exc |-> "None",
              self |-> [s1 EXCEPT !.log_total_p[id - 1] =
                           [j \in DOMAIN @ |-> LAdd(@[j], vals[j])]]]

\* _assign_to_component drawing any slot, also one of probability zero
HMM_assign_to_component_any_slot(self, x) ==
    IF "n_draws" \notin self.attrs THEN {[exc |-> "AttributeError", self |-> self]}
    ELSE IF self.n_draws.float THEN {[exc |-> "TypeError", self |-> self]}
    ELSE {AssignTo(self, x, id) : id \in 0..(self.n_components - 1)}
\* HMM._assign_to_component(x): the set of outcomes [exc, self].  Line 132
\* reads self.n_draws as an array dimension: the attribute is missing when pars
\* are given without par_bounds, and is the float 0. when neither is given
HMM_assign_to_component(self, x) ==
    IF "n_draws" \notin self.attrs THEN {[exc |-> "AttributeError", self |-> self]}
    ELSE IF self.n_draws.float THEN {[exc |-> "TypeError", self |-> self]}
    ELSE LET p == AssignmentProbabilities(self, x)
         IN  IF ~ValidCategorical(p) THEN {[exc |-> "ValueError", self |-> self]}
             ELSE {AssignTo(self, x, id) : id \in {i \in DOMAIN p : p[i].n > 0}}

\* HMM.add_new_point(x)
HMM_add_new_point(self, x) == HMM_assign_to_component(self, x)

\* het_mixture(models, weights, bounds): models[0] is a new object (first),
\* models[1:] are the engine's own par_model objects, held by reference: rest[i]
\* names self.par_models[rest[i]]; weights is the array self.weights was bound to
het_mixture(first, rest, weights) == [first |-> first, rest |-> rest, weights |-> weights]
NoDraw == het_mixture([kind |-> "none", n_pts |-> 0, pars |-> <<>>], <<>>, <<>>)

\* the plain average of the candidates, whatever the evidence
PosteriorMean_unweighted(par_draws_i, ltp) ==
    Vec1(RDiv(np_sum([j \in DOMAIN par_draws_i |-> Rat(par_draws_i[j], 1)]),
              Rat(len(par_draws_i), 1)))
\* lines 199-201: the importance-weighted mean of the candidates of model i
PosteriorMean(par_draws_i, ltp) ==
    LET lse == logsumexp(ltp)
        vals == [j \in DOMAIN ltp |-> np_exp(LSub(ltp[j], lse))]
    IN  Vec1(np_sum([j \in DOMAIN ltp |-> RMul(Rat(par_draws_i[j], 1), vals[j])]))

\* lines 204-207: the first component of the draw
FirstComponent(self) ==
    IF self.DPGMM.n_pts = 0
    THEN [kind |-> "uniform", n_pts |-> 0, pars |-> Vec1(Rat(1, volume))]
    ELSE DPGMM_build_mixture(self.DPGMM)

\* build_mixture that consumes the evidence it has used
HMM_build_mixture_consuming(self) ==
    IF "par_draws" \notin self.attrs
    THEN [exc |-> "AttributeError", self |-> self, d |-> NoDraw]
    ELSE LET s1 == [self EXCEPT !.par_models =
                       [i \in DOMAIN @ |->
                          [@[i] EXCEPT !.pars =
                              PosteriorMean(self.par_draws[i], self.log_total_p[i])]],
                                !.log_total_p =
                       [k \in DOMAIN @ |-> [j \in DOMAIN @[k] |-> LogZero]]]
         IN  [exc |-> "None", self |-> s1,
              d |-> het_mixture(FirstComponent(s1),
                                [i \in DOMAIN s1.par_models |-> i], s1.weights)]
\* HMM.build_mixture(): [exc, self, d].  Line 197 reads self.par_draws, which
\* __init__ sets only when par_bounds is given
HMM_build_mixture(self) ==
    IF "par_draws" \notin self.attrs
    THEN [exc |-> "AttributeError", self |-> self, d |-> NoDraw]
    ELSE LET s1 == [self EXCEPT !.par_models =
                       [i \in DOMAIN @ |->
                          [@[i] EXCEPT !.pars =
                              PosteriorMean(self.par_draws[i], self.log_total_p[i])]]]
         IN  [exc |-> "None", self |-> s1,
              d |-> het_mixture(FirstComponent(s1),
                                [i \in DOMAIN s1.par_models |-> i], s1.weights)]

\* lines 186-187: add_new_point on each sample in turn; an exception ends the
\* loop.  S and the result are sets of [exc, self, fed], fed the calls made
RECURSIVE FeedSamples(_, _)
FeedSamples(S, samples) ==
    IF samples = <<>> THEN S
    ELSE FeedSamples(
           UNION {IF o.exc # "None" THEN {o}
                  ELSE {[exc |-> r.exc, self |-> r.self, fed |-> o.fed + 1] :
                          r \in HMM_add_new_point(o.self, Head(samples))} : o \in S},
           Tail(samples))

\* np.random.shuffle(samples): the array in the order perm
ShuffleOrders(n) == {f \in [1..n -> 1..n] : \A i, j \in 1..n : f[i] = f[j] => i = j}
Shuffled(samples, perm) == [i \in 1..Len(samples) |-> samples[perm[i]]]

\* the reset made before the draw is built
FinishDraw_reset_first(o, pds) ==
    IF o.exc # "None"
    THEN {[exc |-> o.exc, self |-> o.self, fed |-> o.fed, d |-> NoDraw]}
    ELSE {LET b == HMM_build_mixture(
                     HMM_initialise([o.self EXCEPT !.DPGMM = DPGMM_initialise(@)], pd))
          IN  [exc |-> b.exc, self |-> b.self, fed |-> o.fed, d |-> b.d] : pd \in pds}

\* lines 188-191 after the loop ended in o: build_mixture, DPGMM.initialise,
\* initialise (with any of the candidate draws pds), return d
FinishDraw(o, pds) ==
    IF o.exc # "None"
    THEN {[exc |-> o.exc, self |-> o.self, fed |-> o.fed, d |-> NoDraw]}
    ELSE LET b == HMM_build_mixture(o.self)
         IN  IF b.exc # "None"
             THEN {[exc |-> b.exc, self |-> b.self, fed |-> o.fed, d |-> NoDraw]}
             ELSE LET s2 == [b.self EXCEPT !.DPGMM = DPGMM_initialise(@)]
                  IN  {[exc |-> "None", self |-> HMM_initialise(s2, pd),
                        fed |-> o.fed, d |-> b.d] : pd \in pds}

\* HMM.density_from_samples(samples): the set of outcomes [exc, self, fed, d]
\* over the shuffles, the slots drawn and the candidates drawn on reset
HMM_density_from_samples(self, samples, pds) ==
    LET orders == {Shuffled(samples, perm) : perm \in ShuffleOrders(Len(samples))}
    IN  UNION {FinishDraw(o, pds) :
                 o \in UNION {FeedSamples({[exc |-> "None", self |-> self, fed |-> 0]}, s) :
                                s \in orders}}

\* ------------------------------------- the global np.random generator
\* numpy's generator is a deterministic function of its state; here a full-period
\* congruential generator on 4 bits, the variate in [0, 1) being state / 16
rng_next(rng) == (5 * rng + 3) % 16
RECURSIVE RngAfter(_, _)
\* the state after k variates were drawn
RngAfter(rng, k) == IF k = 0 THEN rng ELSE RngAfter(rng_next(rng), k - 1)
\* np.random.seed ignored: the generator keeps its state
np_random_seed_ignored(rng, seed) == rng
\* np.random.seed(seed): the state is the seed, whatever it was
np_random_seed(rng, seed) == seed
\* np.random.uniform(low, high, size = (n, 1)) for one model: [vals, rng]
np_random_uniform(rng, n) ==
    [vals |-> [j \in 0..(n - 1) |->
                 IF 2 * RngAfter(rng, j + 1) < 16 THEN par_bounds_arg[1]
                 ELSE par_bounds_arg[2]],
     rng  |-> RngAfter(rng, n)]
\* the candidates of K models, drawn one model after the other: [vals, rng]
SeededCandidates(rng, K, n) ==
    [vals |-> [k \in 0..(K - 1) |-> np_random_uniform(RngAfter(rng, k * n), n).vals],
     rng  |-> RngAfter(rng, K * n)]
\* np.random.shuffle(a): Fisher-Yates from the last position down, in place;
\* [a, rng]
RECURSIVE FisherYates(_, _, _)
FisherYates(a, i, rng) ==
    IF i <= 1 THEN [a |-> a, rng |-> rng]
    ELSE LET r == rng_next(rng)
             j == 1 + ((r * i) \div 16)
         IN  FisherYates([a EXCEPT ![i] = a[j], ![j] = a[i]], i - 1, r)
np_random_shuffle(rng, a) == FisherYates(a, Len(a), rng)
\* a > b on finite rationals
RGt(a, b) == a.n * b.d > b.n * a.d
\* np.random.choice(n, p = p): the first slot whose cumulative probability
\* exceeds the variate; [id, rng]
np_random_choice(rng, p) ==
    LET r == rng_next(rng)
        u == Rat(r, 16)
        hit == {i \in DOMAIN p : RGt(SumUpTo(p, i), u)}
    IN  [id |-> CHOOSE i \in hit : \A k \in hit : i <= k, rng |-> r]

\* the outcome o of a step, with the state the generator is left in
WithRng(o, rng) == [exc |-> o.exc, self |-> o.self, rng |-> rng]
\* HMM.__init__ with the generator in state rng: [exc, self, rng]
HMM_init_seeded(rng, K, pars, par_bounds, gamma0) ==
    IF par_bounds = None
    THEN WithRng(HMM_init(K, pars, par_bounds, gamma0, <<>>), rng)
    ELSE WithRng(HMM_init(K, pars, par_bounds, gamma0,
                          SeededCandidates(rng, K, n_draws_arg).vals),
                 RngAfter(rng, K * n_draws_arg))
\* HMM.initialise() with the generator in state rng: [self, rng]
HMM_initialise_seeded(self, rng) ==
    IF self.par_bounds = None THEN [self |-> HMM_initialise(self, <<>>), rng |-> rng]
    ELSE [self |-> HMM_initialise(self,
                     SeededCandidates(rng, len(self.par_models), self.n_draws.v).vals),
          rng  |-> RngAfter(rng, len(self.par_models) * self.n_draws.v)]
\* lines 138-146 with the slot c.id drawn, the generator left in state c.rng
AssignSeeded(self, x, c) == WithRng(AssignTo(self, x, c.id), c.rng)
\* line 138 on the probabilities p
ChoiceSeeded(self, x, p, rng) ==
    IF ~ValidCategorical(p) THEN [exc |-> "ValueError", self |-> self, rng |-> rng]
    ELSE AssignSeeded(self, x, np_random_choice(rng, p))
\* HMM.add_new_point(x) with the generator in state rng: [exc, self, rng]
HMM_add_new_point_seeded(self, x, rng) ==
    IF "n_draws" \notin self.attrs THEN [exc |-> "AttributeError", self |-> self, rng |-> rng]
    ELSE IF self.n_draws.float THEN [exc |-> "TypeError", self |-> self, rng |-> rng]
    ELSE ChoiceSeeded(self, x, AssignmentProbabilities(self, x), rng)
\* the outcome r of the call number fed of the loop
Fed(r, fed) == [exc |-> r.exc, self |-> r.self, rng |-> r.rng, fed |-> fed]
\* lines 186-187 with the generator in state o.rng; o and the result
\* [exc, self, rng, fed], fed the calls made
RECURSIVE FeedSeeded(_, _)
FeedSeeded(o, samples) ==
    IF samples = <<>> \/ o.exc # "None" THEN o
    ELSE FeedSeeded(Fed(HMM_add_new_point_seeded(o.self, Head(samples), o.rng), o.fed + 1),
                    Tail(samples))
\* lines 189-191 after build_mixture returned b: DPGMM.initialise, initialise
\* (z its outcome), return d
ResetSeeded(b, z, fed, samples) ==
    [exc |-> "None", self |-> z.self, d |-> b.d, samples |-> samples,
     rng |-> z.rng, fed |-> fed]
\* line 188 after the loop ended in o, b the outcome of build_mixture
BuildSeeded(o, b, samples) ==
    IF b.exc # "None"
    THEN [exc |-> b.exc, self |-> b.self, d |-> NoDraw, samples |-> samples,
          rng |-> o.rng, fed |-> o.fed]
    ELSE ResetSeeded(b, HMM_initialise_seeded([b.self EXCEPT !.DPGMM = DPGMM_initialise(@)],
                                              o.rng),
                     o.fed, samples)
\* lines 188-191 after the loop ended in o
FinishSeeded(o, samples) ==
    IF o.exc # "None"
    THEN [exc |-> o.exc, self |-> o.self, d |-> NoDraw, samples |-> samples,
          rng |-> o.rng, fed |-> o.fed]
    ELSE BuildSeeded(o, HMM_build_mixture(o.self), samples)
\* lines 186-191 on the shuffled array sh.a
FeedAndFinishSeeded(self, sh) ==
    FinishSeeded(FeedSeeded([exc |-> "None", self |-> self, rng |-> sh.rng, fed |-> 0], sh.a),
                 sh.a)
\* HMM.density_from_samples(samples) with the generator in state rng:
\* [exc, self, d, samples, rng, fed], samples the caller's array as the call leaves it
HMM_density_from_samples_seeded(self, samples, rng) ==
    FeedAndFinishSeeded(self, np_random_shuffle(rng, samples))

\* ------------------------------------------------------ the state machine
VARIABLES
    self,      \* the HMM object (NoSelf before and after a failed construction)
    st,        \* "none": not constructed; "ready": HMM() returned; "failed": it raised
    args,      \* the arguments HMM() was called with
    last,      \* the last call: its name, the exception it raised, the
               \* add_new_point calls it made (fed), the samples it was given (n)
    ret,       \* the het_mixture the last call returned (NoDraw: none)
    n_calls,   \* add_new_point calls made since the last reset
    caller     \* what the calling script holds besides the engine: the state of
               \* the global np.random generator, its sample array, earlier draws

vars == <<self, st, args, last, ret, n_calls, caller>>

NoArgs == [K |-> 0, pars |-> None, par_bounds |-> None, gamma0 |-> None]
\* a caller that holds nothing: the generator is never seeded
NoCaller == [rng |-> 0]

Init ==
    /\ self = NoSelf
    /\ st = "none"
    /\ args = NoArgs
    /\ last = [op |-> "none", exc |-> "None", fed |-> 0, n |-> 0]
    /\ ret = NoDraw
    /\ n_calls = 0
    /\ caller = NoCaller

\* the gamma0 a caller passes: None, or positive pseudo-counts
GammaVals == {1, 2}
Gamma0Args == {None} \cup UNION {[1..L -> GammaVals] : L \in 1..MaxGammaLen}
\* pars and par_bounds: neither (models without parameters), pars alone
\* (fixed parameters) or par_bounds alone (parameters to be inferred)
ModeArgs(K) ==
    {[pars |-> None, par_bounds |-> None]} \cup
    (IF K = 0 THEN {}
     ELSE {[pars |-> [i \in 0..(K - 1) |-> Vec1(R0)], par_bounds |-> None]}) \cup
    (IF K \in NInferred THEN {[pars |-> None, par_bounds |-> par_bounds_arg]} ELSE {})
\* the candidates drawn for an engine (none without par_bounds)
Candidates(K, par_bounds) == IF par_bounds = None THEN {<<>>} ELSE ParDraws(K)
\* the arrays a caller passes to density_from_samples
SampleArrays(n) == {s \in [1..n -> X] : \A i \in 1..(n - 1) : s[i] <= s[i + 1]}

\* HMM(models, bounds, pars, par_bounds, n_draws, gamma0)
Construct ==
    /\ st = "none"
    /\ \E K \in NModels, gamma0 \in Gamma0Args :
         \E m \in ModeArgs(K) : \E pd \in Candidates(K, m.par_bounds) :
            LET r == HMM_init(K, m.pars, m.par_bounds, gamma0, pd)
            IN  /\ self' = r.self
                /\ st' = IF r.exc = "None" THEN "ready" ELSE "failed"
                /\ args' = [K |-> K, pars |-> m.pars, par_bounds |-> m.par_bounds,
                            gamma0 |-> gamma0]
                /\ last' = [op |-> "__init__", exc |-> r.exc, fed |-> 0, n |-> 0]
    /\ UNCHANGED <<ret, n_calls, caller>>

\* hmm.initialise()
Initialise ==
    /\ st = "ready"
    /\ \E pd \in Candidates(len(self.par_models), self.par_bounds) :
         self' = HMM_initialise(self, pd)
    /\ last' = [op |-> "initialise", exc |-> "None", fed |-> 0, n |-> 0]
    /\ ret' = NoDraw
    /\ n_calls' = 0
    /\ UNCHANGED <<st, args, caller>>

\* hmm.add_new_point(x)
AddNewPoint ==
    /\ st = "ready"
    /\ n_calls < MaxPts
    /\ self.DPGMM.n_pts < MaxPts
    /\ \E x \in X : \E r \in HMM_add_new_point(self, x) :
         /\ self' = r.self
         /\ last' = [op |-> "add_new_point", exc |-> r.exc, fed |-> 1, n |-> 1]
    /\ ret' = NoDraw
    /\ n_calls' = n_calls + 1
    /\ UNCHANGED <<st, args, caller>>

\* d = hmm.build_mixture()
BuildMixture ==
    /\ st = "ready"
    /\ LET r == HMM_build_mixture(self)
       IN  /\ self' = r.self
           /\ last' = [op |-> "build_mixture", exc |-> r.exc, fed |-> 0, n |-> 0]
           /\ ret' = r.d
    /\ UNCHANGED <<st, args, n_calls, caller>>

\* d = hmm.density_from_samples(samples)
DensityFromSamples ==
    /\ st = "ready"
    /\ \E n \in 0..MaxSamples : \E samples \in SampleArrays(n) :
         /\ n_calls + n <= MaxPts
         /\ self.DPGMM.n_pts + n <= MaxPts
         /\ \E r \in HMM_density_from_samples(self, samples,
                        Candidates(len(self.par_models), self.par_bounds)) :
              /\ self' = r.self
              /\ last' = [op |-> "density_from_samples", exc |-> r.exc, fed |-> r.fed,
                            n |-> n]
              /\ ret' = r.d
              /\ n_calls' = IF r.exc = "None" THEN 0 ELSE n_calls + r.fed
    /\ UNCHANGED <<st, args, caller>>

Next ==
    \/ Construct
    \/ Initialise
    \/ AddNewPoint
    \/ BuildMixture
    \/ DensityFromSamples

Spec == Init /\ [][Next]_vars

\* ------------------------------------------------------------ properties
RECURSIVE IntSumUpTo(_, _)
IntSumUpTo(a, k) == IF k < 0 THEN 0 ELSE a[k] + IntSumUpTo(a, k - 1)
\* the sum of an array of integers
IntSum(a) == IntSumUpTo(a, len(a) - 1)
\* the count numpy broadcasting pairs with gamma0[i]
CountAt(s, i) == IF len(s.n_pts) = len(s.gamma0) THEN s.n_pts[i] ELSE s.n_pts[0]
\* the sum of counts + gamma0 (gamma0 holds whole numbers)
TotalMass(s) == IntSum([i \in DOMAIN s.gamma0 |-> CountAt(s, i) + s.gamma0[i].n])
PriorMass(s) == IntSum([i \in DOMAIN s.gamma0 |-> s.gamma0[i].n])
NoCounts(s) == \A i \in DOMAIN s.n_pts : s.n_pts[i] = 0
\* weights = gamma0 / sum(gamma0)
WeightsArePrior(s) ==
    /\ DOMAIN s.weights = DOMAIN s.gamma0
    /\ \A i \in DOMAIN s.weights :
         s.weights[i].d > 0 /\ s.weights[i].n * PriorMass(s) = s.gamma0[i].n * s.weights[i].d
Inferring(s) == s.par_bounds # None

\* C1: in every state of a constructed engine the weights are
\* (counts + gamma0) / sum(counts + gamma0) and sum to 1, and they are
\* gamma0 / sum(gamma0) while no sample has been counted.
C1_WeightsFollowCounts ==
    st = "ready" =>
      /\ DOMAIN self.weights = DOMAIN self.gamma0
      /\ \A i \in DOMAIN self.weights :
           /\ self.weights[i].d > 0
           /\ self.weights[i].n * TotalMass(self)
                = (CountAt(self, i) + self.gamma0[i].n) * self.weights[i].d
      /\ np_sum(self.weights) = R1
      /\ NoCounts(self) => WeightsArePrior(self)
\* three samples counted, in both slots
C1_Witness ==
    /\ st = "ready" /\ last.op = "add_new_point" /\ last.exc = "None"
    /\ self.n_components = 2 /\ self.n_pts[0] = 1 /\ self.n_pts[1] = 2

\* C2: the counts add up to the number of add_new_point calls made since
\* the last reset (every call counts its sample in exactly one slot); stated
\* for the engines that mix at least one parametric model.
C2_CountsEqualCalls == (st = "ready" /\ args.K >= 1) => IntSum(self.n_pts) = n_calls

\* C3: with a gamma0 supplied, construction succeeds exactly when its length is
\* n_components = len(models) + 1, then with weights gamma0 / sum(gamma0), and
\* fails otherwise with the gamma0 Exception of line 117.
C3_GammaLengthDecides ==
    (last.op = "__init__" /\ args.gamma0 # None) =>
      /\ st = "ready" <=> Len(args.gamma0) = args.K + 1
      /\ st = "ready" =>
           /\ len(self.weights) = Len(args.gamma0)
           /\ \A i \in DOMAIN self.weights :
                self.weights[i].n * IntSum([j \in 0..(Len(args.gamma0) - 1) |-> args.gamma0[j + 1]])
                  = args.gamma0[i + 1] * self.weights[i].d
      /\ st = "failed" => last.exc = "Exception" /\ self = NoSelf

\* what a caller reads from the draw d while the engine is in state s: the
\* weights, the first component, and the pars of the par_model objects
DrawView(d, s) ==
    [weights |-> d.weights, first |-> d.first,
     pars |-> [i \in DOMAIN d.rest |-> s.par_models[d.rest[i]].pars]]
\* C4: the draw a call returned reads the same after the next call on the
\* engine, whichever it is.
C4_DrawImmutable == [][ret # NoDraw => DrawView(ret, self') = DrawView(ret, self)]_vars

\* counts zero, weights the normalised prior, evidence vectors zero
IsReset(s) ==
    /\ NoCounts(s)
    /\ WeightsArePrior(s)
    /\ Inferring(s) =>
         \A k \in DOMAIN s.log_total_p : \A j \in DOMAIN s.log_total_p[k] :
            s.log_total_p[k][j] = LogZero
\* C5: after initialise() and after density_from_samples returns the counts
\* are zero, the weights are gamma0 / sum(gamma0) and the evidence vectors are
\* zero; a second initialise() leaves counts, weights and evidence as the
\* first left them.
C5_ResetRestores ==
    [][/\ (st' = "ready" /\ last'.op \in {"initialise", "density_from_samples"}
             /\ last'.exc = "None") => IsReset(self')
       /\ (last.op = "initialise" /\ last'.op = "initialise") =>
             /\ self'.n_pts = self.n_pts
             /\ self'.weights = self.weights
             /\ self'.log_total_p = self.log_total_p]_vars
\* initialise() on an engine that inferred parameters from two or more points
C5_Witness ==
    /\ st = "ready" /\ last.op = "initialise" /\ Inferring(self)
    /\ self.DPGMM.n_pts >= 2 /\ len(self.par_models[0].pars) = 1

\* C6: after initialise() the collaborator holds no point.
C6_InitialiseResetsCollaborator ==
    (st = "ready" /\ last.op = "initialise") => self.DPGMM.n_pts = 0

Third == Rat(1, 3)
Half == Rat(1, 2)
C8_PointModeAddSucceeds ==
    (st = "ready" /\ args.pars # None /\ ~Inferring(self) /\ last.op = "add_new_point")
      => last.exc = "None"

\* line 132 passes: self.n_draws exists and is an int
CanScore(s) == "n_draws" \in s.attrs /\ ~s.n_draws.float
\* C9: whenever add_new_point gets to compute it, the slot-assignment vector
\* has no NaN and no negative entry and sums to 1, for every sample.
C9_ValidAssignmentVector ==
    (st = "ready" /\ CanScore(self)) =>
      \A x \in X :
        LET p == AssignmentProbabilities(self, x)
        IN  /\ \A i \in DOMAIN p : p[i] # NaNF /\ p[i].d > 0 /\ p[i].n >= 0
            /\ np_sum(p) = R1
\* after some points, a sample at which the parametric slot has zero density
C9_Witness ==
    /\ st = "ready" /\ CanScore(self) /\ IntSum(self.n_pts) >= 2
    /\ \E x \in X :
         /\ \A j \in DOMAIN self.par_draws[0] :
              par_model_pdf_pars(x, Vec1(Rat(self.par_draws[0][j], 1))) = R0
         /\ AssignmentProbabilities(self, x)[1] = R0

\* C10: build_mixture raises nothing, and the first component of the draw it
\* returns is the uniform density 1/volume when the collaborator holds no
\* point and the collaborator's snapshot otherwise; stated for the engines
\* that mix at least one parametric model.
C10_BuildAlwaysSucceeds ==
    (st = "ready" /\ args.K >= 1 /\ last.op = "build_mixture") =>
      /\ last.exc = "None"
      /\ self.DPGMM.n_pts = 0 =>
           ret.first.kind = "uniform" /\ ret.first.pars = Vec1(Rat(1, volume))
      /\ self.DPGMM.n_pts > 0 =>
           ret.first.kind = "figaro" /\ ret.first.n_pts = self.DPGMM.n_pts

\* the count the weight w of a draw stands for when total samples were counted
\* over the prior g: w * (total + sum(gamma0)) - g, or -1 when that is no whole number
CountBehind(w, g, total) ==
    IF w.d > 0 /\ (w.n * total) % w.d = 0 THEN (w.n * total) \div w.d - g ELSE 0 - 1
\* C11 as stated: when density_from_samples returns, add_new_point was called
\* once per sample, the draw returned carries the weights
\* (counts + gamma0) / sum for counts that add up to the number of samples
\* given, and the engine is reset: counts zero, weights the normalised prior,
\* evidence zero, collaborator empty.
C11_DrawBuiltBeforeReset ==
    (st = "ready" /\ last.op = "density_from_samples" /\ last.exc = "None") =>
      /\ last.fed = last.n
      /\ DOMAIN ret.weights = DOMAIN self.gamma0
      /\ LET total == last.n + PriorMass(self)
             c == [i \in DOMAIN ret.weights |->
                     CountBehind(ret.weights[i], self.gamma0[i].n, total)]
         IN  /\ \A i \in DOMAIN c : c[i] >= 0
             /\ IntSum(c) = last.n
      /\ IsReset(self)
      /\ self.DPGMM.n_pts = 0
\* C11 (amended): density_from_samples does not reset before it feeds: the
\* draw it returns carries the weights of counts that are at least the counts
\* the engine held when it was called and add up to those plus the number of
\* samples given (to that number on a fresh or reset engine); add_new_point
\* was called once per sample and on return the engine and the collaborator
\* are reset.
C11_DrawCountsSinceReset ==
    [][(last'.op = "density_from_samples" /\ last'.exc = "None") =>
         /\ last'.fed = last'.n
         /\ DOMAIN ret'.weights = DOMAIN self.gamma0
         /\ LET held == IntSum(self.n_pts)
                total == held + last'.n + PriorMass(self)
                c == [i \in DOMAIN ret'.weights |->
                        CountBehind(ret'.weights[i], self.gamma0[i].n, total)]
            IN  /\ \A i \in DOMAIN c : c[i] >= self.n_pts[i]
                /\ IntSum(c) = held + last'.n
         /\ IsReset(self')
         /\ self'.DPGMM.n_pts = 0]_vars
\* two samples given to an engine that held one: the draw weighs three
C11_Witness ==
    /\ st = "ready" /\ last.op = "density_from_samples" /\ last.exc = "None"
    /\ last.n = 2 /\ len(ret.weights) = 2 /\ ret.weights[0] = Rat(2, 5)

\* ------------------------------------------ two seeded runs of one script
\* The script: for each of two runs, build a fresh engine with par_bounds and
\* call density_from_samples on the script's sample array, calling
\* np.random.seed(seed) before the construction, before the call, or before
\* both; the array is passed as it is (the call shuffles it in place) or as a
\* copy of the original.
NoView == [weights |-> <<>>, first |-> NoDraw.first, pars |-> <<>>]
\* generator states of a script that has not seeded yet
UnseededStates == {0, 9}
Seeds == 0..15
SeedPlaces == {"construct", "call", "both"}
ScriptSamples == UNION {[1..n -> X] : n \in 1..MaxSamples}
ScriptArgs == [K |-> 1, pars |-> None, par_bounds |-> par_bounds_arg, gamma0 |-> None]

InitScript ==
    /\ self = NoSelf
    /\ st = "none"
    /\ args = NoArgs
    /\ last = [op |-> "none", exc |-> "None", fed |-> 0, n |-> 0]
    /\ ret = NoDraw
    /\ n_calls = 0
    /\ caller \in {[rng |-> r0, seed |-> sd, seed_at |-> w, copies |-> c, orig |-> a,
                     samples |-> a, given |-> <<>>, first |-> NoView, runs |-> 0] :
                      r0 \in UnseededStates, sd \in Seeds, w \in SeedPlaces,
                      c \in BOOLEAN, a \in ScriptSamples}

\* the generator when a step of the script starts at place w
RngAt(w) ==
    IF caller.seed_at \in {w, "both"} THEN np_random_seed(caller.rng, caller.seed)
    ELSE caller.rng
\* the script after HMM() returned r
Constructed(r) ==
    /\ self' = r.self
    /\ st' = IF r.exc = "None" THEN "ready" ELSE "failed"
    /\ last' = [op |-> "__init__", exc |-> r.exc, fed |-> 0, n |-> 0]
    /\ caller' = [caller EXCEPT !.rng = r.rng]
\* [np.random.seed(seed);] h = HMM([f], bounds, par_bounds = par_bounds)
ScriptConstruct ==
    /\ st \in {"none", "done"}
    /\ caller.runs < 2
    /\ Constructed(HMM_init_seeded(RngAt("construct"), ScriptArgs.K, ScriptArgs.pars,
                                   ScriptArgs.par_bounds, ScriptArgs.gamma0))
    /\ args' = ScriptArgs
    /\ ret' = NoDraw
    /\ n_calls' = 0

\* the script after density_from_samples(input) returned r
DensityReturned(input, r) ==
    /\ self' = r.self
    /\ st' = "done"
    /\ last' = [op |-> "density_from_samples", exc |-> r.exc, fed |-> r.fed,
                n |-> Len(input)]
    /\ ret' = r.d
    /\ caller' = [caller EXCEPT !.rng = r.rng,
                                !.samples = IF caller.copies THEN @ ELSE r.samples,
                                !.given = Append(@, input),
                                !.first = IF caller.runs = 0
                                          THEN DrawView(r.d, r.self) ELSE @,
                                !.runs = @ + 1]
\* density_from_samples on the array input
DensityOn(input) ==
    DensityReturned(input, HMM_density_from_samples_seeded(self, input, RngAt("call")))
\* [np.random.seed(seed);] d = h.density_from_samples(samples or samples.copy())
ScriptDensity ==
    /\ st = "ready"
    /\ DensityOn(IF caller.copies THEN caller.orig ELSE caller.samples)
    /\ n_calls' = 0
    /\ UNCHANGED args

NextScript ==
    \/ ScriptConstruct
    \/ ScriptDensity

SpecScript == InitScript /\ [][NextScript]_vars

\* the two runs are over and returned a draw each
BothRunsDone == st = "done" /\ caller.runs = 2 /\ last.exc = "None"
EvidenceWeightedMean(theta, l) ==
    RDiv(np_sum([j \in DOMAIN l |-> RMul(Rat(theta[j], 1), np_exp(l[j]))]),
         np_sum([j \in DOMAIN l |-> np_exp(l[j])]))
\* sum_j theta_j / n
PlainMean(theta) == Rat(IntSum(theta), len(theta))
\* C13: after build_mixture every inferred model holds the mean of its
\* candidates weighted by exp(evidence - logsumexp(evidence)); a model that was
\* assigned no sample has zero evidence and holds the plain average of its
\* candidates.
C13_PosteriorMeanInstalled ==
    (st = "ready" /\ Inferring(self)) =>
      \A k \in DOMAIN self.par_models :
        /\ self.n_pts[k + 1] = 0 =>
             \A j \in DOMAIN self.log_total_p[k] : self.log_total_p[k][j] = LogZero
        /\ (last.op = "build_mixture" /\ last.exc = "None") =>
             /\ self.par_models[k].pars =
                  Vec1(EvidenceWeightedMean(self.par_draws[k], self.log_total_p[k]))
             /\ self.n_pts[k + 1] = 0 =>
                  self.par_models[k].pars = Vec1(PlainMean(self.par_draws[k]))
\* build_mixture on a model whose two candidates differ and have gathered
\* different evidence
C13_Witness ==
    /\ st = "ready" /\ Inferring(self) /\ last.op = "build_mixture" /\ last.exc = "None"
    /\ self.n_pts[1] >= 1
    /\ self.par_draws[0][0] # self.par_draws[0][1]
    /\ self.log_total_p[0][0] # self.log_total_p[0][1]

\* C14: in every engine whose models have parameters (fixed or inferred),
\* scoring a sample against a parametric slot raises nothing, and a density of exactly zero gives -infinity: as the
\* score in point mode, as the entry of that candidate in marginalization mode.
C14_ZeroDensityScoresMinusInfinity ==
    (st = "ready" /\ (args.pars # None \/ Inferring(self))) =>
      \A x \in X : \A i \in 1..(self.n_components - 1) :
        LET r == HMM_log_predictive_likelihood(self, x, i)
        IN  /\ r.exc = "None"
            /\ (~Inferring(self) /\ model(x, self.par_models[i - 1].pars) = R0) =>
                 r.score = NegInf
            /\ Inferring(self) =>
                 \A j \in DOMAIN r.vals :
                   model(x, Vec1(Rat(self.par_draws[i - 1][j], 1))) = R0 =>
                     r.vals[j] = NegInf

\* --------------------------------------- an engine inferring two models
\* HMM([f, f], bounds, par_bounds = [[[0, 2]], [[0, 2]]]) fed sample by sample
TwoModels == 2
ConstructTwo ==
    /\ st = "none"
    /\ \E pd \in ParDraws(TwoModels) :
         LET r == HMM_init(TwoModels, None, par_bounds_arg, None, pd)
         IN  /\ self' = r.self
             /\ st' = IF r.exc = "None" THEN "ready" ELSE "failed"
             /\ last' = [op |-> "__init__", exc |-> r.exc, fed |-> 0, n |-> 0]
    /\ args' = [K |-> TwoModels, pars |-> None, par_bounds |-> par_bounds_arg,
                gamma0 |-> None]
    /\ UNCHANGED <<ret, n_calls, caller>>

\* hmm.add_new_point(x), the script keeping x
AddNewPointTwo ==
    /\ st = "ready"
    /\ n_calls < MaxPts
    /\ \E x \in X : \E r \in HMM_add_new_point(self, x) :
         /\ self' = r.self
         /\ last' = [op |-> "add_new_point", exc |-> r.exc, fed |-> 1, n |-> 1]
         /\ caller' = [rng |-> caller.rng, x |-> x]
    /\ ret' = NoDraw
    /\ n_calls' = n_calls + 1
    /\ UNCHANGED <<st, args>>

NextTwo ==
    \/ ConstructTwo
    \/ AddNewPointTwo

SpecTwo == Init /\ [][NextTwo]_vars

\* the log-likelihood of x under candidate j of model k
CandidateLogLikelihood(s, x, k, j) ==
    LET p == model(x, Vec1(Rat(s.par_draws[k][j], 1)))
    IN  IF p = R0 THEN NegInf ELSE np_log(p)
\* C15: a successful add_new_point(x) counts x in one slot; when that is the
\* slot of inferred model k, the log-likelihood of x under each candidate of
\* model k is added to the matching entry of model k's evidence vector and the
\* evidence of every other model is unchanged; when it is slot 0 no evidence
\* vector changes.
C15_EvidenceOfChosenSlotOnly ==
    [][(st = "ready" /\ last'.op = "add_new_point" /\ last'.exc = "None") =>
         \E id \in DOMAIN self.n_pts :
           /\ self'.n_pts = [self.n_pts EXCEPT ![id] = @ + 1]
           /\ DOMAIN self'.log_total_p = DOMAIN self.log_total_p
           /\ \A k \in DOMAIN self.log_total_p :
                IF k = id - 1
                THEN \A j \in DOMAIN self.log_total_p[k] :
                       self'.log_total_p[k][j] =
                         LAdd(self.log_total_p[k][j],
                              CandidateLogLikelihood(self, caller'.x, k, j))
                ELSE self'.log_total_p[k] = self.log_total_p[k]]_vars
\* the second model was assigned a sample that one of its candidates excludes,
\* the first model none
C15_Witness ==
    /\ st = "ready" /\ last.op = "add_new_point" /\ last.exc = "None"
    /\ self.n_components = 3 /\ self.n_pts[2] = 1 /\ self.n_pts[1] = 0
    /\ \E j \in DOMAIN self.log_total_p[1] : self.log_total_p[1][j] = NegInf
    /\ \A j \in DOMAIN self.log_total_p[0] : self.log_total_p[0][j] = LogZero

\* C16: a successful add_new_point gives the collaborator one more point when
\* it counts the sample in slot 0 and leaves the collaborator alone when it
\* counts it elsewhere, so on an engine that was constructed and then only fed
\* with add_new_point the collaborator holds as many points as slot 0 counts.
C16_CollaboratorHoldsSlotZero ==
    [][st' = "ready" =>
         /\ self'.DPGMM.n_pts = self'.n_pts[0]
         /\ (last'.op = "add_new_point" /\ last'.exc = "None") =>
              /\ self'.DPGMM.n_pts - self.DPGMM.n_pts = self'.n_pts[0] - self.n_pts[0]
              /\ self'.n_pts[0] - self.n_pts[0] \in {0, 1}]_vars
\* samples counted in slot 0 and in another slot
C16_Witness ==
    /\ st = "ready" /\ last.op = "add_new_point" /\ last.exc = "None"
    /\ self.n_components = 3 /\ self.n_pts[0] >= 1 /\ self.n_pts[1] + self.n_pts[2] >= 1
    /\ self.DPGMM.n_pts = self.n_pts[0]

\* C17: build_mixture leaves the counts, the weights, the evidence vectors, the
\* candidates and the collaborator as they were, and a build_mixture that
\* follows a build_mixture returns a draw with the same weights, first
\* component and component parameters.
C17_BuildLeavesEvidence ==
    [][last'.op = "build_mixture" =>
         /\ self'.n_pts = self.n_pts
         /\ self'.weights = self.weights
         /\ self'.log_total_p = self.log_total_p
         /\ self'.par_draws = self.par_draws
         /\ self'.DPGMM = self.DPGMM
         /\ (last.op = "build_mixture" /\ last.exc = "None") =>
              /\ last'.exc = "None"
              /\ DrawView(ret', self') = DrawView(ret, self)]_vars
\* a draw built from evidence that favours one candidate
C17_Witness ==
    /\ st = "ready" /\ last.op = "build_mixture" /\ last.exc = "None"
    /\ ret.first.kind = "figaro" /\ self.n_pts[1] >= 1
    /\ self.log_total_p[0][0] # self.log_total_p[0][1]
    /\ DrawView(ret, self).pars[0] = self.par_models[0].pars

\* some entry of the evidence vector l is above -infinity
HasFiniteEvidence(l) == \E j \in DOMAIN l : l[j].k = "fin"
\* C18: while an engine that infers parameters is fed with add_new_point, the
\* evidence vector of every model keeps an entry above -infinity and the
\* predictive log-likelihood of its slot is not NaN for any sample; a model is
\* assigned a sample only when one of its candidates has finite evidence and a
\* non-zero density at that sample.
C18_EvidenceNeverAllMinusInfinity ==
    [][(st' = "ready" /\ Inferring(self')) =>
         /\ \A k \in DOMAIN self'.log_total_p :
              /\ HasFiniteEvidence(self'.log_total_p[k])
              /\ \A x \in X :
                   HMM_log_predictive_likelihood(self', x, k + 1).score.k # "nan"
         /\ (last'.op = "add_new_point" /\ last'.exc = "None") =>
              \A k \in DOMAIN self.log_total_p :
                self'.n_pts[k + 1] # self.n_pts[k + 1] =>
                  \E j \in DOMAIN self.log_total_p[k] :
                    /\ self.log_total_p[k][j].k = "fin"
                    /\ model(caller'.x, Vec1(Rat(self.par_draws[k][j], 1))) # R0]_vars
\* both models were assigned samples, and each has lost a candidate
C18_Witness ==
    /\ st = "ready" /\ last.op = "add_new_point" /\ last.exc = "None"
    /\ self.n_components = 3 /\ self.n_pts[1] >= 1 /\ self.n_pts[2] >= 1
    /\ \A k \in DOMAIN self.log_total_p :
         /\ \E j \in DOMAIN self.log_total_p[k] : self.log_total_p[k][j] = NegInf
         /\ HasFiniteEvidence(self.log_total_p[k])

====
